---- MODULE Spec2Model ----
(***************************************************************************)
(* Model of the plagiarism-analysis backend (src/app.py): the corpus store *)
(* under BASE_PATH, the lazily loaded embedding model (global `modelo`),   *)
(* and the /analizar, /subir_base and /eliminar_base handlers run by the   *)
(* worker threads of the Flask server.                                     *)
(*                                                                         *)
(* Units.  Comparator outputs (ratio*100, cosine*100) are real numbers in  *)
(* the code; the model keeps them as integers in thousandths of a point    *)
(* ("milesimas": 100000 = 100.0).  Values written by round(x, 2) are kept  *)
(* as integers in hundredths of a point ("centesimas": 10000 = 100.00).    *)
(* similitud_web is an integer number of points, as in the code.           *)
(***************************************************************************)
EXTENDS Integers, Sequences, FiniteSets, TLC

VARIABLES
    USE_IA,         \* app.py:20  feature flag, resolved once at start-up
    modelo,         \* app.py:56  global model: "None" or "cargado"
    base,           \* files under BASE_PATH: name -> text the reader extracts
    mutaciones,     \* number of corpus mutations so far (bounds the run)
    hilos,          \* worker threads that serve /analizar requests
    pc,             \* per thread: position inside analizar
    texto_usuario,  \* app.py:287 local of analizar
    docs_base,      \* app.py:292 local: the listing taken once
    idx,            \* position of the for-loop of app.py:299 in docs_base
    resultados,     \* app.py:297 local list of result dicts
    texto_base,     \* app.py:301 local of the current iteration
    exacto,         \* app.py:305 local (milesimas)
    tfidf,          \* app.py:308 local (milesimas)
    informe,        \* the dict returned at app.py:337, <<>> until returned
    fallidos,       \* history: listed documents whose text came back empty
    ausentes,       \* history: listed documents missing from the store when read
    entrada,        \* input pair of the stand-alone classification check
    salida          \* its output

vars == <<USE_IA, modelo, base, mutaciones, hilos, pc, texto_usuario, docs_base,
          idx, resultados, texto_base, exacto, tfidf, informe, fallidos,
          ausentes, entrada, salida>>

-----------------------------------------------------------------------------
(* Bounds of the model *)

\* corpus mutations (uploads and deletions) in one behaviour
MaxMutaciones == 2
\* results the search provider may hand back (it is asked for 3)
MaxWeb == 4

-----------------------------------------------------------------------------
(* Files and texts *)

Hilos == {"h1", "h2"}

\* file names, split as os.path.splitext does
Nombres ==
    { [raiz |-> "d1", ext |-> ".txt"],
      [raiz |-> "d2", ext |-> ".PDF"],
      [raiz |-> "n",  ext |-> ".md"] }

\* str.lower() on the extensions that occur
Lower(e) ==
    CASE e = ".PDF" -> ".pdf"
      [] e = ".TXT" -> ".txt"
      [] OTHER -> e

ExtSoportadas == {".txt", ".pdf", ".docx"}

\* texts are sequences of characters
EsBlanco(c) == c \in {" "}
EsPalabra(c) == c \in {"a", "b"}

RECURSIVE LStrip(_)
LStrip(t) ==
    IF t = <<>> THEN t
    ELSE IF EsBlanco(Head(t)) THEN LStrip(Tail(t)) ELSE t

RECURSIVE RStrip(_)
RStrip(t) ==
    IF t = <<>> THEN t
    ELSE IF EsBlanco(t[Len(t)]) THEN RStrip(SubSeq(t, 1, Len(t) - 1)) ELSE t

\* str.strip()
Strip(t) == RStrip(LStrip(t))

\* TfidfVectorizer's default token pattern \b\w\w+\b keeps only runs of two or
\* more word characters: the vocabulary of t is non-empty iff t has such a run
TieneVocabulario(t) ==
    \E i \in 1..(Len(t) - 1) : EsPalabra(t[i]) /\ EsPalabra(t[i + 1])

\* texts a file can hold
Contenidos ==
    { <<" ">>, <<"a">>, <<"a", "b", " ">>, <<"b", "a">> }

\* the uploaded file of an /analizar request: none, or a name and its text
SinArchivo == [filename |-> "", ext |-> "", datos |-> <<>>]
Subidas ==
    { SinArchivo,
      [filename |-> "u.md",  ext |-> ".md",  datos |-> <<"a", "b">>],
      [filename |-> "u.txt", ext |-> ".txt", datos |-> <<" ">>],
      [filename |-> "u.txt", ext |-> ".txt", datos |-> <<" ", "a">>],
      [filename |-> "u.TXT", ext |-> ".TXT", datos |-> <<"a", "b">>] }

\* variant of LeerTexto: a reader error hands back its message as the text
LeerTextoConMensaje(ext, legible, datos) ==
    IF ~legible THEN <<"e", "r", "r">>
    ELSE IF Lower(ext) \in ExtSoportadas THEN datos
    ELSE <<>>

\* leer_texto: the text of a supported readable file, "" for anything else
\* (an exception of the reader is caught and gives "")
LeerTexto(ext, legible, datos) ==
    IF ~legible THEN <<>>
    ELSE IF Lower(ext) \in ExtSoportadas THEN datos
    ELSE <<>>

\* leer_texto(os.path.join(BASE_PATH, nombre)) against the store b
LeerRuta(b, nombre) ==
    LeerTexto(nombre.ext, nombre \in DOMAIN b,
              IF nombre \in DOMAIN b THEN b[nombre] ELSE <<>>)

\* all orders of a finite set (os.listdir returns the entries in arbitrary order)
Ordenes(S) ==
    { s \in [1..Cardinality(S) -> S] :
        \A i, j \in 1..Cardinality(S) : i # j => s[i] # s[j] }

\* the filter of app.py:292-295 over the names present in the store
Listables(b) == { n \in DOMAIN b : Lower(n.ext) \in ExtSoportadas }

Rango(s) == { s[i] : i \in 1..Len(s) }

-----------------------------------------------------------------------------
(* Numbers *)

Min(a, b) == IF a <= b THEN a ELSE b

\* round(num/den) to an integer, den > 0.  The code rounds binary floats: a
\* value that is a decimal tie is stored slightly above or below the tie, so
\* either neighbour can come out (round((59.99+0)/2, 2) = 30.0 but
\* round((99.99+0)/2, 2) = 49.99); both outcomes are kept.
Redondeos(num, den) ==
    LET q == num \div den
        r == num - q * den
    IN  IF 2 * r < den THEN {q}
        ELSE IF 2 * r > den THEN {q + 1}
        ELSE {q, q + 1}

\* the divisor of app.py:312-315
Divisor(ia) == IF ia THEN 3 ELSE 2

-----------------------------------------------------------------------------
(* Comparators.  difflib, scikit-learn and sentence-transformers are        *)
(* libraries: the model keeps what their contracts fix (a ratio or a cosine *)
(* of non-negative vectors lies in [0,1], an embedding cosine in [-1,1],    *)
(* equal texts score 1, fit_transform raises on an empty vocabulary) and    *)
(* lets the environment choose the value otherwise.                         *)

\* SequenceMatcher.ratio()*100 of two different texts (milesimas)
RatiosParciales == {0, 29976}
\* cosine_similarity*100 of the tf-idf vectors of two different texts
CosenosTfidf == {0, 8}
\* pytorch_cos_sim*100 of the embeddings of two different texts
CosenosSemanticos == {-5000, 70000}

\* app.py:305
ExactoPosibles(u, b) == IF u = b THEN {100000} ELSE RatiosParciales

\* app.py:307  TfidfVectorizer().fit_transform raises ValueError ("empty
\* vocabulary") when neither text has a token
TfidfFalla(u, b) == ~TieneVocabulario(u) /\ ~TieneVocabulario(b)

\* app.py:308  a text without tokens has the zero vector, whose cosine is 0
TfidfPosibles(u, b) ==
    IF ~TieneVocabulario(u) \/ ~TieneVocabulario(b) THEN {0}
    ELSE IF u = b THEN {100000}
    ELSE CosenosTfidf

\* app.py:208-213  encode and cosine, or an exception caught as 0
CodificarPosibles(u, b) ==
    (IF u = b THEN {100000} ELSE CosenosSemanticos) \cup {0}

\* app.py:312-315  numerator of the mean, before the division
Suma(e, t, s, ia) == IF ia THEN e + t + s ELSE e + t

\* app.py:317-323  the dict appended for one document; `suma` keeps the local
\* `promedio` unrounded (promedio = suma / Divisor)
ResultadosPosibles(nombre, e, t, s, ia) ==
    { [archivo |-> nombre, exacto |-> re, tfidf |-> rt, semantico |-> rs,
       promedio |-> rp, suma |-> Suma(e, t, s, ia)] :
        re \in Redondeos(e, 10), rt \in Redondeos(t, 10),
        rs \in Redondeos(s, 10),
        rp \in Redondeos(Suma(e, t, s, ia), 10 * Divisor(ia)) }

\* list.sort(key=promedio, reverse=True): a stable sort, equal keys keep the
\* order they had
RECURSIVE Insertar(_, _)
Insertar(s, r) ==
    IF s = <<>> THEN <<r>>
    ELSE IF Head(s).promedio >= r.promedio
         THEN <<Head(s)>> \o Insertar(Tail(s), r)
         ELSE <<r>> \o s

\* variant of the sort: a later result goes in front of its equals
RECURSIVE InsertarDelante(_, _)
InsertarDelante(s, r) ==
    IF s = <<>> THEN <<r>>
    ELSE IF Head(s).promedio > r.promedio
         THEN <<Head(s)>> \o InsertarDelante(Tail(s), r)
         ELSE <<r>> \o s

RECURSIVE OrdenarInestable(_)
OrdenarInestable(s) ==
    IF s = <<>> THEN <<>>
    ELSE InsertarDelante(OrdenarInestable(SubSeq(s, 1, Len(s) - 1)), s[Len(s)])

RECURSIVE OrdenarDesc(_)
OrdenarDesc(s) ==
    IF s = <<>> THEN <<>>
    ELSE Insertar(OrdenarDesc(SubSeq(s, 1, Len(s) - 1)), s[Len(s)])

\* variant of SimilitudWeb: a heavier weight per search hit
SimilitudWebPesada(n) == Min(n * 35, 100)

\* app.py:329
SimilitudWeb(n) == Min(n * 15, 100)

\* variant of PromedioTotal: the last result of the list instead of the first
PromedioTotalUltimo(res, web) ==
    IF res = <<>> THEN 0 ELSE res[Len(res)].promedio + 100 * web

\* app.py:331-333  twice promedio_total, in centesimas
PromedioTotal(res, web) ==
    IF res = <<>> THEN 0 ELSE res[1].promedio + 100 * web

\* variant of ClasificarPorcentaje: strict comparisons
ClasificarEstricto(num, den) ==
    IF num > 8000 * den THEN <<"PLAGIO", "rojo">>
    ELSE IF num > 5000 * den THEN <<"SIMILITUD ALTA", "naranja">>
    ELSE IF num > 3000 * den THEN <<"POSIBLE IA", "amarillo">>
    ELSE <<"ORIGINAL", "verde">>

\* app.py:231-239  clasificar_porcentaje(num/den), num/den in centesimas
ClasificarPorcentaje(num, den) ==
    IF num >= 8000 * den THEN <<"PLAGIO", "rojo">>
    ELSE IF num >= 5000 * den THEN <<"SIMILITUD ALTA", "naranja">>
    ELSE IF num >= 3000 * den THEN <<"POSIBLE IA", "amarillo">>
    ELSE <<"ORIGINAL", "verde">>

-----------------------------------------------------------------------------
(* Initial states *)

SinBase == [n \in {} |-> <<>>]

\* stores the process can find at start-up: the files persist across restarts
BasesIniciales ==
    { SinBase,
      [n \in {[raiz |-> "d1", ext |-> ".txt"]} |-> <<"b", "a">>] }

Reposo ==
    /\ modelo = "None"
    /\ pc = [h \in Hilos |-> "idle"]
    /\ texto_usuario = [h \in Hilos |-> <<>>]
    /\ docs_base = [h \in Hilos |-> <<>>]
    /\ idx = [h \in Hilos |-> 0]
    /\ resultados = [h \in Hilos |-> <<>>]
    /\ texto_base = [h \in Hilos |-> <<>>]
    /\ exacto = [h \in Hilos |-> 0]
    /\ tfidf = [h \in Hilos |-> 0]
    /\ informe = [h \in Hilos |-> <<>>]
    /\ fallidos = [h \in Hilos |-> {}]
    /\ ausentes = [h \in Hilos |-> {}]

\* one worker, a store as app.py:44-45 finds or creates it, any flag
Init ==
    /\ Reposo
    /\ USE_IA \in BOOLEAN
    /\ base \in BasesIniciales
    /\ mutaciones = 0
    /\ hilos = {"h1"}
    /\ entrada = <<>>
    /\ salida = <<>>

-----------------------------------------------------------------------------
(* Corpus store *)

\* app.py:250-263  subir_base saves one uploaded file under its name
SubirBase(n, t) ==
    /\ mutaciones < MaxMutaciones
    /\ mutaciones' = mutaciones + 1
    /\ base' = [m \in DOMAIN base \cup {n} |-> IF m = n THEN t ELSE base[m]]
    /\ UNCHANGED <<USE_IA, modelo, hilos, pc, texto_usuario, docs_base, idx,
                   resultados, texto_base, exacto, tfidf, informe, fallidos,
                   ausentes, entrada, salida>>

\* app.py:266-277  eliminar_base removes the file if it exists
EliminarBase(n) ==
    /\ mutaciones < MaxMutaciones
    /\ mutaciones' = mutaciones + 1
    /\ base' = IF n \in DOMAIN base
               THEN [m \in DOMAIN base \ {n} |-> base[m]]
               ELSE base
    /\ UNCHANGED <<USE_IA, modelo, hilos, pc, texto_usuario, docs_base, idx,
                   resultados, texto_base, exacto, tfidf, informe, fallidos,
                   ausentes, entrada, salida>>

-----------------------------------------------------------------------------
(* analizar *)

\* app.py:282-297  read the upload, reject it if empty, list the store once
Analizar(h, archivo) ==
    /\ pc[h] = "idle"
    /\ LET t == Strip(LeerTexto(archivo.ext, TRUE, archivo.datos))
       IN  IF archivo.filename = "" \/ t = <<>>
           THEN /\ pc' = [pc EXCEPT ![h] = "rechazada"]
                /\ UNCHANGED <<texto_usuario, docs_base, idx>>
           ELSE /\ \E lista \in Ordenes(Listables(base)) :
                      docs_base' = [docs_base EXCEPT ![h] = lista]
                /\ texto_usuario' = [texto_usuario EXCEPT ![h] = t]
                /\ idx' = [idx EXCEPT ![h] = 1]
                /\ pc' = [pc EXCEPT ![h] = "bucle"]
    /\ UNCHANGED <<USE_IA, modelo, base, mutaciones, hilos, resultados,
                   texto_base, exacto, tfidf, informe, fallidos, ausentes,
                   entrada, salida>>

\* app.py:299-308  one iteration up to the semantic comparator: read the
\* document, skip it if empty, else the lexical and statistical scores
LeerBase(h) ==
    /\ pc[h] = "bucle"
    /\ idx[h] <= Len(docs_base[h])
    /\ LET nombre == docs_base[h][idx[h]]
           leido == Strip(LeerRuta(base, nombre))
       IN  IF leido = <<>>
           THEN /\ idx' = [idx EXCEPT ![h] = @ + 1]
                /\ fallidos' = [fallidos EXCEPT ![h] = @ \cup {nombre}]
                /\ ausentes' = [ausentes EXCEPT ![h] =
                                  IF nombre \in DOMAIN base THEN @
                                  ELSE @ \cup {nombre}]
                /\ UNCHANGED <<pc, texto_base, exacto, tfidf>>
           ELSE IF TfidfFalla(texto_usuario[h], leido)
           THEN /\ pc' = [pc EXCEPT ![h] = "abortada"]
                /\ texto_base' = [texto_base EXCEPT ![h] = leido]
                /\ UNCHANGED <<idx, exacto, tfidf, fallidos, ausentes>>
           ELSE /\ \E e \in ExactoPosibles(texto_usuario[h], leido) :
                      exacto' = [exacto EXCEPT ![h] = e]
                /\ \E t \in TfidfPosibles(texto_usuario[h], leido) :
                      tfidf' = [tfidf EXCEPT ![h] = t]
                /\ texto_base' = [texto_base EXCEPT ![h] = leido]
                /\ pc' = [pc EXCEPT ![h] = "semantica"]
                /\ UNCHANGED <<idx, fallidos, ausentes>>
    /\ UNCHANGED <<USE_IA, modelo, base, mutaciones, hilos, texto_usuario,
                   docs_base, resultados, informe, entrada, salida>>

\* app.py:312-323  the mean and the append that end an iteration
Agregar(h, s) ==
    /\ \E r \in ResultadosPosibles(docs_base[h][idx[h]], exacto[h], tfidf[h],
                                   s, USE_IA) :
          resultados' = [resultados EXCEPT ![h] = Append(@, r)]
    /\ idx' = [idx EXCEPT ![h] = @ + 1]
    /\ texto_base' = [texto_base EXCEPT ![h] = <<>>]
    /\ exacto' = [exacto EXCEPT ![h] = 0]
    /\ tfidf' = [tfidf EXCEPT ![h] = 0]
    /\ pc' = [pc EXCEPT ![h] = "bucle"]

\* app.py:199-213 with get_modelo (74-82) up to the call of cargar_modelo:
\* the flag off gives 0, a model already loaded is reused, and a thread that
\* finds the global None goes on to load it
SimilitudSemantica(h) ==
    /\ pc[h] = "semantica"
    /\ IF ~USE_IA
       THEN Agregar(h, 0)
       ELSE IF modelo = "None"
       THEN /\ pc' = [pc EXCEPT ![h] = "cargando"]
            /\ UNCHANGED <<idx, resultados, texto_base, exacto, tfidf>>
       ELSE \E s \in CodificarPosibles(texto_usuario[h], texto_base[h]) :
               Agregar(h, s)
    /\ UNCHANGED <<USE_IA, modelo, base, mutaciones, hilos, texto_usuario,
                   docs_base, informe, fallidos, ausentes, entrada, salida>>

\* app.py:58-71 and 81-82  cargar_modelo returns the model or, on an
\* exception, None; get_modelo stores it in the global and returns it;
\* app.py:205-213 then scores 0 without a model, else encodes
CargarModelo(h, cargado) ==
    /\ pc[h] = "cargando"
    /\ modelo' = IF cargado THEN "cargado" ELSE "None"
    /\ IF cargado
       THEN \E s \in CodificarPosibles(texto_usuario[h], texto_base[h]) :
               Agregar(h, s)
       ELSE Agregar(h, 0)
    /\ UNCHANGED <<USE_IA, base, mutaciones, hilos, texto_usuario, docs_base,
                   informe, fallidos, ausentes, entrada, salida>>

\* app.py:325-344  sort, web search, overall score, classification, report
Finalizar(h, n) ==
    /\ pc[h] = "bucle"
    /\ idx[h] > Len(docs_base[h])
    /\ LET ordenados == OrdenarDesc(resultados[h])
           similitud_web == SimilitudWeb(n)
           total2 == PromedioTotal(ordenados, similitud_web)
           clase == ClasificarPorcentaje(total2, 2)
       IN  /\ resultados' = [resultados EXCEPT ![h] = ordenados]
           /\ \E redondeado \in Redondeos(total2, 2) :
                 informe' = [informe EXCEPT ![h] =
                    << [resultados |-> ordenados,
                        coincidencias_web |-> n,
                        similitud_web |-> similitud_web,
                        promedio_total |-> redondeado,
                        clasificacion |-> clase[1],
                        color |-> clase[2]] >>]
    /\ pc' = [pc EXCEPT ![h] = "done"]
    /\ UNCHANGED <<USE_IA, modelo, base, mutaciones, hilos, texto_usuario,
                   docs_base, idx, texto_base, exacto, tfidf, fallidos,
                   ausentes, entrada, salida>>

\* the response leaves the handler (a report, the redirect of a rejected
\* upload, or the error page of an unhandled exception); the worker is free
Responder(h) ==
    /\ pc[h] \in {"done", "rechazada", "abortada"}
    /\ pc' = [pc EXCEPT ![h] = "idle"]
    /\ texto_usuario' = [texto_usuario EXCEPT ![h] = <<>>]
    /\ docs_base' = [docs_base EXCEPT ![h] = <<>>]
    /\ idx' = [idx EXCEPT ![h] = 0]
    /\ resultados' = [resultados EXCEPT ![h] = <<>>]
    /\ texto_base' = [texto_base EXCEPT ![h] = <<>>]
    /\ informe' = [informe EXCEPT ![h] = <<>>]
    /\ fallidos' = [fallidos EXCEPT ![h] = {}]
    /\ ausentes' = [ausentes EXCEPT ![h] = {}]
    /\ UNCHANGED <<USE_IA, modelo, base, mutaciones, hilos, exacto, tfidf,
                   entrada, salida>>

-----------------------------------------------------------------------------
(* Specifications *)

Next ==
    \/ \E n \in Nombres, t \in Contenidos : SubirBase(n, t)
    \/ \E n \in Nombres : EliminarBase(n)
    \/ \E h \in hilos, archivo \in Subidas : Analizar(h, archivo)
    \/ \E h \in hilos : LeerBase(h)
    \/ \E h \in hilos : SimilitudSemantica(h)
    \/ \E h \in hilos, cargado \in BOOLEAN : CargarModelo(h, cargado)
    \/ \E h \in hilos, n \in 0..MaxWeb : Finalizar(h, n)
    \/ \E h \in hilos : Responder(h)

Spec == Init /\ [][Next]_vars

\* Two workers serve requests at once (app.run is threaded), the flag is on
\* and the store holds one document; the store is not mutated.
InitConc ==
    /\ Reposo
    /\ USE_IA = TRUE
    /\ base \in BasesIniciales \ {SinBase}
    /\ mutaciones = 0
    /\ hilos = Hilos
    /\ entrada = <<>>
    /\ salida = <<>>

NextConc ==
    \/ \E h \in hilos, archivo \in Subidas : Analizar(h, archivo)
    \/ \E h \in hilos : LeerBase(h)
    \/ \E h \in hilos : SimilitudSemantica(h)
    \/ \E h \in hilos, cargado \in BOOLEAN : CargarModelo(h, cargado)
    \/ \E h \in hilos, n \in 0..MaxWeb : Finalizar(h, n)
    \/ \E h \in hilos : Responder(h)

SpecConc == InitConc /\ [][NextConc]_vars

\* The classification of app.py:331-335 on its own: a top aggregate score and
\* a web score, both in points, go through the mean and clasificar_porcentaje.
Decenas == {0, 10, 20, 30, 40, 50, 60, 70, 80, 90, 100}

InitClasificar ==
    /\ Reposo
    /\ USE_IA = FALSE
    /\ base = SinBase
    /\ mutaciones = 0
    /\ hilos = {}
    /\ entrada \in Decenas \X Decenas
    /\ salida = <<>>

Clasificar ==
    /\ salida = <<>>
    /\ entrada # <<>>
    /\ LET total2 == PromedioTotal(<<[promedio |-> 100 * entrada[1]]>>,
                                   entrada[2])
       IN  salida' = <<total2>> \o ClasificarPorcentaje(total2, 2)
    /\ UNCHANGED <<USE_IA, modelo, base, mutaciones, hilos, pc, texto_usuario,
                   docs_base, idx, resultados, texto_base, exacto, tfidf,
                   informe, fallidos, ausentes, entrada>>

NextClasificar == Clasificar

SpecClasificar == InitClasificar /\ [][NextClasificar]_vars

-----------------------------------------------------------------------------
(* Properties *)

Terminados == { h \in hilos : pc[h] = "done" }

Archivos(res) == { res[i].archivo : i \in 1..Len(res) }

Posicion(s, x) == CHOOSE k \in 1..Len(s) : s[k] = x

\* the thresholds as the specification lists them, on num/den centesimas
Umbral(num, den) ==
    IF num >= 8000 * den THEN <<"PLAGIO", "rojo">>
    ELSE IF num >= 5000 * den THEN <<"SIMILITUD ALTA", "naranja">>
    ELSE IF num >= 3000 * den THEN <<"POSIBLE IA", "amarillo">>
    ELSE <<"ORIGINAL", "verde">>

\* C1: with semantic analysis enabled, a thread that reaches get_modelo while
\* another thread is loading the model never starts a second load: at most
\* one thread is inside cargar_modelo at any time.
C1_UnaSolaCarga ==
    Cardinality({ h \in hilos : pc[h] = "cargando" }) <= 1

\* C2: an analysis of a non-empty submitted text is never aborted by a
\* comparator failure: it goes on to return a report.
C2_SinAborto ==
    \A h \in hilos : pc[h] # "abortada"

\* C3 as stated: in every report overall_score is 0 without results and
\* (top aggregate_score + web_similarity_score) / 2 otherwise, and the label
\* and colour are the first threshold the reported overall_score reaches.
C3_Original ==
    \A h \in Terminados :
        LET inf == informe[h][1]
        IN  /\ inf.resultados = <<>> => inf.promedio_total = 0
            /\ inf.resultados # <<>> =>
                 2 * inf.promedio_total =
                    inf.resultados[1].promedio + 100 * inf.similitud_web
            /\ <<inf.clasificacion, inf.color>> = Umbral(inf.promedio_total, 1)

\* C3 amended: in every report overall_score is 0 without results, whatever
\* the web score, and otherwise is (top reported aggregate_score +
\* web_similarity_score) / 2 rounded to 2 decimals; the label and colour are
\* the first threshold reached by that mean before it is rounded; an empty
\* ranked list always comes with ORIGINAL/green.
C3_Informe ==
    \A h \in Terminados :
        LET inf == informe[h][1]
            media2 == inf.resultados[1].promedio + 100 * inf.similitud_web
        IN  /\ inf.resultados = resultados[h]
            /\ inf.resultados = <<>> =>
                 /\ inf.promedio_total = 0
                 /\ <<inf.clasificacion, inf.color>> = <<"ORIGINAL", "verde">>
            /\ inf.resultados # <<>> =>
                 /\ 2 * inf.promedio_total - media2 \in {-1, 0, 1}
                 /\ <<inf.clasificacion, inf.color>> = Umbral(media2, 2)

\* a report whose mean falls between two centesimas, with web hits
C3_Testigo ==
    \E h \in Terminados :
        LET inf == informe[h][1]
        IN  /\ Len(inf.resultados) = 2
            /\ inf.resultados[1].promedio # inf.resultados[2].promedio
            /\ inf.similitud_web > 0
            /\ (inf.resultados[1].promedio + 100 * inf.similitud_web) % 2 = 1

\* C4 as stated: (90,10) is PLAGIARISM/red, (60,0) HIGH_SIMILARITY/orange,
\* (0,60) POSSIBLE_AI/yellow and (0,0) ORIGINAL/green.
C4_Original ==
    salida # <<>> =>
        /\ entrada = <<90, 10>> => SubSeq(salida, 2, 3) = <<"PLAGIO", "rojo">>
        /\ entrada = <<60, 0>> =>
             SubSeq(salida, 2, 3) = <<"SIMILITUD ALTA", "naranja">>
        /\ entrada = <<0, 60>> =>
             SubSeq(salida, 2, 3) = <<"POSIBLE IA", "amarillo">>
        /\ entrada = <<0, 0>> => SubSeq(salida, 2, 3) = <<"ORIGINAL", "verde">>

\* C4 amended: the label is that of the mean of the two scores: (90,10) has
\* mean 50, HIGH_SIMILARITY/orange; (60,0) has mean 30, POSSIBLE_AI/yellow;
\* (0,60) has mean 30, POSSIBLE_AI/yellow; (0,0) is ORIGINAL/green.
C4_Ejemplos ==
    salida # <<>> =>
        /\ entrada = <<90, 10>> =>
             salida = <<10000, "SIMILITUD ALTA", "naranja">>
        /\ entrada = <<60, 0>> => salida = <<6000, "POSIBLE IA", "amarillo">>
        /\ entrada = <<0, 60>> => salida = <<6000, "POSIBLE IA", "amarillo">>
        /\ entrada = <<0, 0>> => salida = <<0, "ORIGINAL", "verde">>

\* the pair (0,60), exactly on a threshold, has been classified
C4_Testigo ==
    salida # <<>> /\ entrada = <<0, 60>>

\* C5: a run in which the extraction of a listed document fails completes
\* normally, with exactly one result for every other listed document and
\* none for the failed one.
C5_ExtraccionFallida ==
    \A h \in hilos :
        (pc[h] \in {"done", "abortada"} /\ fallidos[h] # {}) =>
            /\ pc[h] = "done"
            /\ Archivos(resultados[h]) = Rango(docs_base[h]) \ fallidos[h]
            /\ Len(resultados[h]) =
                 Len(docs_base[h]) - Cardinality(fallidos[h])

\* C6: an analysis works on the file names listed once at its start: the
\* listing is the store's content at that moment and does not change while
\* the request runs, every result is for a listed name, and a listed
\* document that is gone from the store when it is read is skipped, the loop
\* going on to the next document.
C6_Instantanea ==
    [][\A h \in hilos :
         /\ (pc[h] = "idle" /\ pc'[h] = "bucle") =>
               Rango(docs_base'[h]) = Listables(base)
         /\ (pc[h] # "idle" /\ pc'[h] # "idle") => docs_base'[h] = docs_base[h]
         /\ Archivos(resultados'[h]) \subseteq Rango(docs_base'[h])
         /\ ( /\ pc[h] = "bucle"
              /\ idx[h] <= Len(docs_base[h])
              /\ <<pc'[h], idx'[h]>> # <<pc[h], idx[h]>>
              /\ docs_base[h][idx[h]] \notin DOMAIN base ) =>
               /\ pc'[h] = "bucle"
               /\ idx'[h] = idx[h] + 1
               /\ resultados'[h] = resultados[h]
       ]_vars

\* a finished analysis that skipped a document removed after the listing
\* while the store holds a document added after it
C6_Testigo ==
    \E h \in Terminados :
        /\ ausentes[h] # {}
        /\ Listables(base) \ Rango(docs_base[h]) # {}

\* C7: the results of a report are in non-increasing order of
\* aggregate_score, and results with equal aggregate_score are in the order
\* of their documents in the listing.
C7_Orden ==
    \A h \in Terminados :
        LET r == informe[h][1].resultados
        IN  \A i, j \in 1..Len(r) :
              i < j =>
                /\ r[i].promedio >= r[j].promedio
                /\ r[i].promedio = r[j].promedio =>
                     Posicion(docs_base[h], r[i].archivo)
                       < Posicion(docs_base[h], r[j].archivo)

\* a report with two results of equal aggregate_score
C7_Testigo ==
    \E h \in Terminados :
        LET r == informe[h][1].resultados
        IN  Len(r) = 2 /\ r[1].promedio = r[2].promedio

\* C8: every score of every result of a report lies in [0,100].
C8_Rangos ==
    \A h \in Terminados :
        LET r == informe[h][1].resultados
        IN  \A i \in 1..Len(r) :
              /\ r[i].exacto \in 0..10000
              /\ r[i].tfidf \in 0..10000
              /\ r[i].semantico \in 0..10000
              /\ r[i].promedio \in 0..10000

\* C9: rounding never feeds a later computation: the results are ranked by
\* the unrounded aggregate and overall_score is the unrounded top aggregate
\* averaged with the web score, rounded once.
C9_SinRedondeoIntermedio ==
    \A h \in Terminados :
        LET inf == informe[h][1]
            r == inf.resultados
        IN  /\ \A i, j \in 1..Len(r) : i < j => r[i].suma >= r[j].suma
            /\ r # <<>> =>
                 inf.promedio_total \in
                    Redondeos(r[1].suma + 1000 * Divisor(USE_IA) * inf.similitud_web,
                              20 * Divisor(USE_IA))

\* C10: when the provider returns no more than the 3 results asked for,
\* web_similarity_score is at most 45, overall_score at most 72.5 and the
\* label is never PLAGIARISM/red.
C10_SinPlagio ==
    \A h \in Terminados :
        LET inf == informe[h][1]
        IN  inf.coincidencias_web <= 3 =>
              /\ inf.similitud_web <= 45
              /\ inf.promedio_total <= 7250
              /\ inf.clasificacion # "PLAGIO"
              /\ inf.color # "rojo"

\* a report at the ceiling: three hits and a top aggregate of 100
C10_Testigo ==
    \E h \in Terminados :
        LET inf == informe[h][1]
        IN  /\ inf.coincidencias_web = 3
            /\ inf.resultados # <<>>
            /\ inf.resultados[1].promedio = 10000
            /\ inf.promedio_total = 7250

====
